---- MODULE Spec2Model ----
(***************************************************************************)
(* A model of systray/systrayicon.py: the menu compiler                    *)
(* (_prepare_menu_options, _recompile_menu_options_with_ids), the action   *)
(* dispatcher (_execute_menu_option) and the window / icon lifecycle of    *)
(* SysTrayIcon, run by a caller thread and the message-loop threads that   *)
(* start() spawns.                                                         *)
(***************************************************************************)
EXTENDS Integers, Sequences, FiniteSets, TLC

(***************************************************************************)
(* Bounds of the model.                                                    *)
(***************************************************************************)
\* Entries (at any depth) of a caller-supplied menu specification.
MaxNodes == 3
\* Times one caller-supplied object is compiled (construction of a second
\* controller from the same object, or whole-menu replacement).
MaxCompiles == 2
\* start() calls the caller thread issues in a row; each may spawn a
\* message-loop thread.
MaxStarts == 2
\* update() calls the caller thread issues in one scenario.
MaxUpdates == 2
\* Events the desktop shell and the user produce (clicks on the tray entry,
\* shell re-registration).
MaxEvents == 1
\* Clicks of the user on the tray entry in the scenario that follows what
\* the clicks dispatch.
MaxClicks == 2

(***************************************************************************)
(* Program constants.                                                      *)
(***************************************************************************)
FIRST_ID == 1023

(***************************************************************************)
(* Python values that occur in the callback and submenu fields of a menu   *)
(* entry.  kind is the runtime type: "callable", "QUIT" (the string        *)
(* 'QUIT'), "str" (any other string), "None", "int" (a non-iterable,       *)
(* non-callable object), "list" (a non-string iterable whose elements are  *)
(* items) and "bool" (the result of _non_string_iterable).                 *)
(***************************************************************************)
Val(kind, name, items) == [kind |-> kind, name |-> name, items |-> items]
NoneVal == Val("None", "", <<>>)
QUIT == Val("QUIT", "QUIT", <<>>)
SPECIAL_ACTIONS == {QUIT}
Callable(name) == Val("callable", name, <<>>)
StrVal == Val("str", "text", <<>>)
ListVal(items) == Val("list", "", items)
BoolVal(b) == Val("bool", IF b THEN "True" ELSE "False", <<>>)

\* callable(obj)
callable(obj) == obj.kind = "callable"

\* Python truthiness of the values above.
Truthy(obj) ==
    CASE obj.kind = "None" -> FALSE
      [] obj.kind = "list" -> obj.items # <<>>
      [] obj.kind = "bool" -> obj.name = "True"
      [] OTHER -> TRUE

\* _non_string_iterable(obj): iter(obj) succeeds and obj is not a str.
\* Strings and lists are the iterable kinds.
_non_string_iterable(obj) ==
    IF obj.kind \notin {"list", "str", "QUIT"}
    THEN FALSE
    ELSE obj.kind \notin {"str", "QUIT"}

(***************************************************************************)
(* A raw menu entry, as the caller writes it.  form is the Python type of  *)
(* the entry: "tuple" (unpacked into MenuOption positionally), "dict"      *)
(* (unpacked by keyword), "node" (a MenuOption or CheckBoxMenuOption       *)
(* instance, copied) or "other" (anything else).                           *)
(* callback and submenu are the fields the MenuOption gets.                *)
(***************************************************************************)
RawEntry(form, callback, submenu, checkbox) ==
    [form |-> form, callback |-> callback, submenu |-> submenu, checkbox |-> checkbox]

\* MenuOption('Quit', callback=SysTrayIcon.QUIT)
QuitOption == RawEntry("node", QUIT, NoneVal, FALSE)

\* menu_handle = None (lines 20, 21)
NoHandle == << -1 >>

\* MenuOption.__init__ / copy(menu_option): the compiled node starts with the
\* entry's callback and submenu, no action id and no native menu item.  A
\* checkbox entry is a CheckBoxMenuOption with a check hook, whose cached
\* flag is what the hook returned when the caller constructed it (FALSE);
\* the hook may return something else by the time the menu is shown.
MenuOption(entry) ==
    [callback |-> entry.callback, submenu |-> entry.submenu,
     checkbox |-> entry.checkbox, action_id |-> 0, compiled |-> FALSE,
     children |-> <<>>,
     checked |-> FALSE, menu_handle |-> NoHandle, menu_position |-> 0]

(***************************************************************************)
(* _recompile_menu_options_with_ids.  The state threaded through the       *)
(* recursion is self._next_action_id and self._menu_actions_by_id; the     *)
(* result carries status "ok" or the exception raised.                     *)
(***************************************************************************)
EmptyMap == [i \in {} |-> NoneVal]
MapPut(m, k, v) == [i \in DOMAIN m \cup {k} |-> IF i = k THEN v ELSE m[i]]

Raised(exc, next_id, actions) ==
    [status |-> exc, result |-> <<>>, next_action_id |-> next_id, actions |-> actions]

\* line 206: submenu = menu_option.submenu or _non_string_iterable(menu_option.callback)
SubmenuOf(menu_option) ==
    IF Truthy(menu_option.submenu)
    THEN menu_option.submenu
    ELSE BoolVal(_non_string_iterable(menu_option.callback))

\* line 207: callable(menu_option.callback) or menu_option.callback in SPECIAL_ACTIONS
IsLeafAction(callback) == callable(callback) \/ callback \in SPECIAL_ACTIONS

\* line 210: the counter value the recursion into a submenu starts from.  The
\* node's own id was taken at line 205 and the counter is advanced only at
\* line 215, after the recursion.
CounterAtRecursion(action_id) == action_id

\* line 215: self._next_action_id += 1, applied to the counter as the
\* recursion (if any) left it.
AdvanceCounter_unshared(own_id, counter) == own_id + 1
AdvanceCounter(own_id, counter) == counter + 1

RECURSIVE _recompile_menu_options_with_ids(_, _, _)
RECURSIVE RecompileEntry(_, _, _)

\* One iteration of the loop, lines 197-215.
RecompileEntry(entry, next_id, actions) ==
    IF entry.form \notin {"tuple", "dict", "node"}
    THEN Raised("ValueError", next_id, actions)
    ELSE
    LET menu_option == [MenuOption(entry) EXCEPT !.action_id = next_id]
        submenu == SubmenuOf(menu_option)
    IN  IF IsLeafAction(menu_option.callback)
        THEN [status |-> "ok", result |-> <<menu_option>>,
              next_action_id |-> AdvanceCounter(next_id, next_id),
              actions |-> MapPut(actions, next_id, menu_option.callback)]
        ELSE IF Truthy(submenu)
        THEN IF submenu.kind # "list"
             \* iterating True: TypeError: 'bool' object is not iterable
             THEN Raised("TypeError", next_id, actions)
             ELSE LET sub == _recompile_menu_options_with_ids(
                                 submenu.items, CounterAtRecursion(next_id), actions)
                  IN  IF sub.status # "ok"
                      THEN sub
                      ELSE [status |-> "ok",
                            result |-> <<[menu_option EXCEPT
                                            !.callback = NoneVal,
                                            !.compiled = TRUE,
                                            !.children = sub.result]>>,
                            next_action_id |-> AdvanceCounter(next_id, sub.next_action_id),
                            actions |-> sub.actions]
        ELSE Raised("Exception", next_id, actions)

_recompile_menu_options_with_ids(menu_options, next_id, actions) ==
    IF menu_options = <<>>
    THEN [status |-> "ok", result |-> <<>>, next_action_id |-> next_id, actions |-> actions]
    ELSE LET one == RecompileEntry(Head(menu_options), next_id, actions)
         IN  IF one.status # "ok"
             THEN one
             ELSE LET rest == _recompile_menu_options_with_ids(
                                  Tail(menu_options), one.next_action_id, one.actions)
                  IN  IF rest.status # "ok"
                      THEN rest
                      ELSE [rest EXCEPT !.result = one.result \o rest.result]

(***************************************************************************)
(* _prepare_menu_options.  The caller's argument is an object              *)
(* [container, items]: None, a tuple or a list.  A tuple (and None, which  *)
(* becomes the empty tuple) is converted to a fresh list; a list is used   *)
(* as it is, so the append at line 189 changes the caller's list.          *)
(***************************************************************************)
\* line 189: menu_options.append(MenuOption('Quit', callback=SysTrayIcon.QUIT))
AppendQuit_front(items) == <<QuitOption>> \o items
AppendQuit(items) == Append(items, QuitOption)

\* lines 186-189: the list that is compiled.
PreparedList(arg) == AppendQuit(arg.items)

\* The caller's object after the call: only a list is changed in place.
ArgAfterPrepare(arg) ==
    IF arg.container = "list" THEN [arg EXCEPT !.items = AppendQuit(arg.items)] ELSE arg

\* lines 190-192
Compile(arg) == _recompile_menu_options_with_ids(PreparedList(arg), FIRST_ID, EmptyMap)

(***************************************************************************)
(* Walks of a compiled tree.                                               *)
(***************************************************************************)
RECURSIVE PreOrder(_)
\* The nodes of a compiled sibling list in pre-order: a node, then its
\* compiled children, then its next sibling.
PreOrder(nodes) ==
    IF nodes = <<>> THEN <<>>
    ELSE <<Head(nodes)>> \o PreOrder(Head(nodes).children) \o PreOrder(Tail(nodes))

IdsOf(nodes) == [i \in 1..Len(nodes) |-> nodes[i].action_id]

(***************************************************************************)
(* The menu specifications a caller may supply: every forest of at most    *)
(* MaxNodes entries built from the entry shapes below.                     *)
(***************************************************************************)
\* Entries without children.
LeafEntries ==
    { RawEntry("tuple", Callable("cb_a"), NoneVal, FALSE),
      RawEntry("dict", QUIT, NoneVal, FALSE),
      RawEntry("node", Callable("cb_a"), NoneVal, TRUE),
      RawEntry("tuple", StrVal, NoneVal, FALSE),
      RawEntry("dict", NoneVal, NoneVal, FALSE),
      RawEntry("other", NoneVal, NoneVal, FALSE) }

\* Entries that carry a list of child entries, in the submenu field or as
\* the action field.
ParentEntries(items) ==
    { RawEntry("node", NoneVal, ListVal(items), FALSE),
      RawEntry("tuple", ListVal(items), NoneVal, FALSE),
      RawEntry("dict", ListVal(items), NoneVal, FALSE),
      RawEntry("node", Callable("cb_b"), ListVal(items), FALSE) }

RECURSIVE Forests(_)
RECURSIVE Trees(_)
\* The entries with exactly n nodes.
Trees(n) ==
    IF n = 0 THEN {}
    ELSE (IF n = 1 THEN LeafEntries ELSE {})
         \cup UNION { ParentEntries(f) : f \in Forests(n - 1) }
\* The sibling lists with exactly n nodes.
Forests(n) ==
    IF n = 0 THEN { <<>> }
    ELSE UNION { { <<t>> \o f : t \in Trees(k), f \in Forests(n - k) } : k \in 1..n }

RawSpecs(max) == UNION { Forests(n) : n \in 0..max }

CallerArgs(max) ==
    { [container |-> "none", items |-> <<>>] }
    \cup { [container |-> c, items |-> s] : c \in {"list", "tuple"}, s \in RawSpecs(max) }

RECURSIVE HasQuitEntry(_)
\* A caller specification that holds a QUIT-bound entry at any depth.
HasQuitEntry(items) ==
    \E i \in 1..Len(items) :
        \/ items[i].callback = QUIT
        \/ items[i].callback.kind = "list" /\ HasQuitEntry(items[i].callback.items)
        \/ items[i].submenu.kind = "list" /\ HasQuitEntry(items[i].submenu.items)

(***************************************************************************)
(* State.                                                                  *)
(***************************************************************************)
VARIABLES
    \* the caller's menu_options object and, for reference, what it held
    \* when the caller wrote it
    menu_options, menu_spec,
    \* SysTrayIcon fields written by _prepare_menu_options
    _menu_options, _menu_actions_by_id, _next_action_id,
    \* outcome of the last _prepare_menu_options call and the number of calls
    prepared, ncompiles,
    \* SysTrayIcon fields of the window / icon lifecycle (lines 88-113).
    \* None is 0 for the handles and NoNotify for _notify_id.
    _icon, _icon_shared, _hicon, _hwnd, _notify_id, _message_loop_thread,
    _on_quit, _default_menu_index, _menu,
    \* the threads: thr[0] is the caller's thread, thr[t] for t >= 1 the
    \* t-th thread start() spawned; nthreads counts the spawned ones
    thr, nthreads,
    \* the native side: live window handles, the notification-area entries
    \* of the shell, and for every icon handle ever returned the number of
    \* times DestroyIcon was applied to it
    windows, shell, icons,
    \* what the user-supplied callbacks saw: invocations of on_quit and of
    \* each menu callback
    on_quit_calls, cb_calls,
    \* what the check hooks of the checkbox entries currently return
    check_hook,
    \* the API calls the caller is still to issue, in order, and the number
    \* of shell / user events so far
    script, events

compileVars ==
    <<menu_options, menu_spec, _menu_options, _menu_actions_by_id, _next_action_id,
      prepared, ncompiles>>

fieldVars ==
    <<_icon, _icon_shared, _hicon, _hwnd, _notify_id, _message_loop_thread,
      _on_quit, _default_menu_index, _menu>>

nativeVars == <<windows, shell, icons>>

vars ==
    <<compileVars, fieldVars, thr, nthreads, nativeVars, on_quit_calls, cb_calls,
      check_hook,
      script, events>>

(***************************************************************************)
(* Threads.  A frame holds the position of a thread in the code (pc, named *)
(* after the function and the source line it is about to execute), the     *)
(* positions it returns to (stack), the locals of _load_icon (hicon) and   *)
(* _refresh_icon (message), and, for a message-loop thread, its message    *)
(* queue and whether PostQuitMessage was called on it.  ctx tells what the *)
(* frame at the bottom of the Python stack is: an API call of the caller,  *)
(* the thread's target _message_loop_func, or WndProc called by the pump.  *)
(* disp records, while WndProc handles a message or shutdown() runs, what   *)
(* is being handled and whether the controller was Started when it began.  *)
(* error is the exception that ended the thread's last call or dispatch.   *)
(***************************************************************************)
MainThread == 0
Threads == 0..MaxStarts
LoopThreads == 1..MaxStarts

NoDispatch == [kind |-> "", started |-> FALSE, quits |-> 0]

Frame(pc) ==
    [pc |-> pc, stack |-> <<>>, ctx |-> "", hicon |-> 0, message |-> "", action_id |-> 0,
     queue |-> <<>>, quit |-> FALSE, disp |-> NoDispatch, error |-> ""]

\* The window handle CreateWindowEx returns to thread t.
HwndOf(t) == t

\* LoadIcon(0, IDI_APPLICATION): the shared default icon, always the same handle.
IDI_APPLICATION == 1

NoNotify == <<>>
\* NotifyData(hWnd, 0, flags, WM_USER+20, hIcon, tip)
NotifyData(hWnd, hIcon) == <<hWnd, hIcon>>

\* The icon paths a caller may pass: an existing icon file or a path that
\* is no file.  "None" is no path.
IconPaths == {"good", "missing"}
\* os.path.isfile(path)
isfile(path) == path = "good"

\* Messages in a thread's queue.
Msg(msg, id, lparam) == [msg |-> msg, id |-> id, lparam |-> lparam]
WM_CLOSE == Msg("WM_CLOSE", 0, "")
TaskbarCreated == Msg("TaskbarCreated", 0, "")
WM_COMMAND(id) == Msg("WM_COMMAND", id, "")
WM_USER_20(lparam) == Msg("WM_USER+20", 0, lparam)

\* A thread that start() spawned and that has not finished.
Alive(t) == t \in 1..nthreads /\ thr[t].pc # "done"

\* The controller is Started with t as its message-loop thread: t is the
\* thread the controller refers to, it has created the window whose handle
\* the controller holds and has gone on to the message pump, and no other
\* message-loop thread of the controller is running.
Started(t) ==
    /\ Alive(t)
    /\ thr[t].ctx # "create"
    /\ _message_loop_thread = t
    /\ _hwnd = HwndOf(t)
    /\ HwndOf(t) \in windows
    /\ \A u \in LoopThreads : u # t => ~Alive(u)

(***************************************************************************)
(* SysTrayIcon.__init__, lines 88-114, for a menu that compiles.           *)
(***************************************************************************)
\* The menu specification of the controller whose lifecycle is explored.
LifecycleMenu ==
    [container |-> "tuple",
     items |-> << RawEntry("tuple", Callable("cb_a"), NoneVal, FALSE) >>]

\* self._menu = None (line 113): no popup menu built yet.
NoMenu == [built |-> FALSE, items |-> {}]

\* The callbacks bound to menu entries.  cb_shutdown calls shutdown() on
\* the controller it is given.
CallbackNames == {"cb_a", "cb_b", "cb_shutdown"}
NoCalls == [n \in CallbackNames |-> 0]

\* The controller after construction from one of the menus, with one of
\* the default indexes, and a caller about to issue one of the call
\* sequences of scripts.
RegisteredWith(scripts, menus, indexes, hooks) ==
    /\ menu_options \in menus
    /\ menu_spec = menu_options.items
    /\ LET r == Compile(menu_options)
       IN  /\ _menu_options = r.result
           /\ _menu_actions_by_id = r.actions
           /\ _next_action_id = r.next_action_id
           /\ prepared = r.status
    /\ ncompiles = 1
    /\ _icon \in IconPaths
    /\ _icon_shared = FALSE
    /\ _hicon = 0
    /\ _hwnd = 0
    /\ _notify_id = NoNotify
    /\ _message_loop_thread = 0
    /\ _on_quit = TRUE
    /\ _default_menu_index \in indexes
    /\ _menu = NoMenu
    /\ thr = [t \in Threads |-> Frame(IF t = MainThread THEN "idle" ELSE "unborn")]
    /\ nthreads = 0
    /\ windows = {}
    /\ shell = {}
    /\ icons = <<0>>
    /\ on_quit_calls = 0
    /\ cb_calls = NoCalls
    /\ check_hook \in hooks
    /\ script \in scripts
    /\ events = 0

\* The controller after construction with the one-entry menu, and a caller
\* about to issue one of the call sequences of scripts.
Registered(scripts) == RegisteredWith(scripts, {LifecycleMenu}, {0, 1}, {FALSE})

\* lines 93-95, before _prepare_menu_options runs
InitCompile ==
    /\ menu_options \in CallerArgs(MaxNodes)
    /\ menu_spec = menu_options.items
    /\ _menu_options = <<>>
    /\ _menu_actions_by_id = EmptyMap
    /\ _next_action_id = FIRST_ID
    /\ prepared = "none"
    /\ ncompiles = 0
    /\ _icon = "None"
    /\ _icon_shared = FALSE
    /\ _hicon = 0
    /\ _hwnd = 0
    /\ _notify_id = NoNotify
    /\ _message_loop_thread = 0
    /\ _on_quit = FALSE
    /\ _default_menu_index = 0
    /\ _menu = NoMenu
    /\ thr = [t \in Threads |-> Frame(IF t = MainThread THEN "idle" ELSE "unborn")]
    /\ nthreads = 0
    /\ windows = {}
    /\ shell = {}
    /\ icons = <<0>>
    /\ on_quit_calls = 0
    /\ cb_calls = NoCalls
    /\ check_hook = FALSE
    /\ script = <<>>
    /\ events = 0

\* SysTrayIcon.__init__ line 96 (or a whole-menu replacement): one call of
\* _prepare_menu_options on the caller's object.
_prepare_menu_options ==
    /\ ncompiles < MaxCompiles
    /\ LET r == Compile(menu_options)
       IN  /\ menu_options' = ArgAfterPrepare(menu_options)
           /\ _next_action_id' = r.next_action_id
           /\ _menu_actions_by_id' = r.actions
           /\ _menu_options' = IF r.status = "ok" THEN r.result ELSE _menu_options
           /\ prepared' = r.status
    /\ ncompiles' = ncompiles + 1
    /\ UNCHANGED <<menu_spec, fieldVars, thr, nthreads, nativeVars, on_quit_calls,
                   cb_calls, check_hook, script, events>>

NextCompile == _prepare_menu_options

SpecCompile == InitCompile /\ [][NextCompile]_vars

(***************************************************************************)
(* Frames: calls, returns and exceptions.                                   *)
(***************************************************************************)
Goto(f, pc) == [f EXCEPT !.pc = pc]

\* Call a method: continue at pc and come back to ret.
Call(f, pc, ret) == [f EXCEPT !.pc = pc, !.stack = <<ret>> \o f.stack]

\* Back at the bottom of the Python stack: the API call returned to the
\* caller ("idle"), or WndProc returned to the message pump ("pump").
AtBottom(f, pc) ==
    [f EXCEPT !.pc = pc, !.stack = <<>>, !.ctx = "", !.hicon = 0, !.message = "",
              !.action_id = 0, !.disp = NoDispatch]

\* Return from the current method.
Return(f) ==
    IF Len(f.stack) = 1
    THEN AtBottom(f, Head(f.stack))
    ELSE [f EXCEPT !.pc = Head(f.stack), !.stack = Tail(f.stack),
                   !.hicon = 0, !.message = ""]

\* An exception leaves every method of the stack.  It propagates out of the
\* caller's API call; ctypes reports and drops it when it leaves WndProc;
\* it ends the thread when it leaves the thread's target.
Raise(f, exc) ==
    [ (CASE f.ctx = "call"    -> AtBottom(f, "idle")
         [] f.ctx = "wndproc" -> AtBottom(f, "pump")
         [] OTHER             -> AtBottom(f, "done")) EXCEPT !.error = exc ]

\* The windows of a thread go with it.
WindowsAfter(t, f) == IF f.pc = "done" THEN windows \ {HwndOf(t)} ELSE windows

(***************************************************************************)
(* The native shell adapter, as far as the lifecycle uses it.              *)
(***************************************************************************)
\* PostMessage(hwnd, msg, 0, 0): appended to the queue of the thread that
\* owns the window; nothing happens for None or a destroyed window.
PostMessage(threads, hwnd, m) ==
    IF hwnd \in windows
    THEN [threads EXCEPT ![hwnd].queue = Append(@, m)]
    ELSE threads

\* Shell_NotifyIcon(message, nid) on the notification-area entries.
Shell_NotifyIcon(entries, message, nid) ==
    LET same == {e \in entries : e[1] = nid[1]}
    IN  CASE message = "NIM_DELETE" -> entries \ same
          [] message = "NIM_ADD" ->
                IF nid[1] \in windows /\ same = {} THEN entries \cup {nid} ELSE entries
          [] message = "NIM_MODIFY" ->
                IF same # {} THEN (entries \ same) \cup {nid} ELSE entries
          [] OTHER -> entries

\* DestroyIcon(hicon)
DestroyIcon(handles, hicon) ==
    IF hicon \in DOMAIN handles THEN [handles EXCEPT ![hicon] = @ + 1] ELSE handles

(***************************************************************************)
(* The caller's thread: start, shutdown and update.                        *)
(***************************************************************************)
\* The caller is between two calls and the next call of its script is op.
CallerIdle(op) ==
    /\ thr[MainThread].pc = "idle"
    /\ script # <<>>
    /\ Head(script) = op

\* start(), lines 164-168 (and __enter__, lines 116-119)
start ==
    /\ CallerIdle("start")
    /\ script' = Tail(script)
    /\ IF _hwnd # 0
       THEN UNCHANGED <<thr, nthreads, _message_loop_thread>>
       ELSE /\ nthreads' = nthreads + 1
            /\ _message_loop_thread' = nthreads + 1
            /\ thr' = [thr EXCEPT ![nthreads + 1] =
                          [Frame("_create_window_146") EXCEPT !.ctx = "create",
                                                              !.stack = <<"pump">>]]
    /\ UNCHANGED <<compileVars, _icon, _icon_shared, _hicon, _hwnd, _notify_id,
                   _on_quit, _default_menu_index, _menu, nativeVars, on_quit_calls,
                   cb_calls, check_hook, events>>

\* shutdown(), lines 170-172 (and __exit__, lines 121-123)
shutdown ==
    /\ CallerIdle("shutdown")
    /\ script' = Tail(script)
    /\ thr' = [thr EXCEPT ![MainThread] =
                 IF _hwnd = 0
                 THEN @
                 ELSE [@ EXCEPT !.pc = "shutdown_173", !.ctx = "call",
                                !.disp = [kind |-> "shutdown",
                                          started |-> \E t \in LoopThreads : Started(t),
                                          quits |-> on_quit_calls]]]
    /\ UNCHANGED <<compileVars, fieldVars, nthreads, nativeVars, on_quit_calls,
                   cb_calls, check_hook, events>>

\* line 173: PostMessage(self._hwnd, WM_CLOSE, 0, 0)
shutdown_173 ==
    /\ thr[MainThread].pc = "shutdown_173"
    /\ thr' = [PostMessage(thr, _hwnd, WM_CLOSE) EXCEPT ![MainThread].pc = "shutdown_174"]
    /\ UNCHANGED <<compileVars, fieldVars, nthreads, nativeVars, on_quit_calls,
                   cb_calls, check_hook, script, events>>

\* line 174: self._message_loop_thread.join()
shutdown_174 ==
    /\ thr[MainThread].pc = "shutdown_174"
    /\ thr[_message_loop_thread].pc = "done"
    /\ thr' = [thr EXCEPT ![MainThread] = AtBottom(@, "idle")]
    /\ UNCHANGED <<compileVars, fieldVars, nthreads, nativeVars, on_quit_calls,
                   cb_calls, check_hook, script, events>>

\* update(icon, hover_text), lines 176-183, up to the first call it makes:
\* _load_icon when an icon is given, _refresh_icon otherwise.  The hover
\* text is left out: no other code reads it.
update(icon) ==
    /\ CallerIdle("update")
    /\ script' = Tail(script)
    /\ IF icon # "None"
       THEN /\ _icon' = icon
            /\ thr' = [thr EXCEPT ![MainThread] =
                         [@ EXCEPT !.pc = "_load_icon_222", !.ctx = "call",
                                   !.stack = <<"_refresh_icon_241", "idle">>]]
       ELSE /\ UNCHANGED _icon
            /\ thr' = [thr EXCEPT ![MainThread] =
                         [@ EXCEPT !.pc = "_refresh_icon_241", !.ctx = "call",
                                   !.stack = <<"idle">>]]
    /\ UNCHANGED <<compileVars, _icon_shared, _hicon, _hwnd, _notify_id,
                   _message_loop_thread, _on_quit, _default_menu_index, _menu,
                   nthreads, nativeVars, on_quit_calls, cb_calls, check_hook, events>>

(***************************************************************************)
(* _load_icon, lines 218-238, run by whichever thread calls it.             *)
(***************************************************************************)
\* line 222: if not self._icon_shared and self._hicon != 0
_load_icon_222(t) ==
    /\ thr[t].pc = "_load_icon_222"
    /\ thr' = [thr EXCEPT ![t] =
                 Goto(@, IF ~_icon_shared /\ _hicon # 0
                         THEN "_load_icon_223" ELSE "_load_icon_228")]
    /\ UNCHANGED <<compileVars, fieldVars, nthreads, nativeVars, on_quit_calls,
                   cb_calls, check_hook, script, events>>

\* line 223: DestroyIcon(self._hicon)
_load_icon_223(t) ==
    /\ thr[t].pc = "_load_icon_223"
    /\ icons' = DestroyIcon(icons, _hicon)
    /\ thr' = [thr EXCEPT ![t] = Goto(@, "_load_icon_224")]
    /\ UNCHANGED <<compileVars, fieldVars, nthreads, windows, shell, on_quit_calls,
                   cb_calls, check_hook, script, events>>

\* line 224: self._hicon = 0
_load_icon_224(t) ==
    /\ thr[t].pc = "_load_icon_224"
    /\ _hicon' = 0
    /\ thr' = [thr EXCEPT ![t] = Goto(@, "_load_icon_228")]
    /\ UNCHANGED <<compileVars, _icon, _icon_shared, _hwnd, _notify_id,
                   _message_loop_thread, _on_quit, _default_menu_index, _menu,
                   nthreads, nativeVars, on_quit_calls, cb_calls, check_hook, script, events>>

\* lines 227-228: hicon = 0; if self._icon is not None and os.path.isfile(self._icon).
\* When the test fails, line 235 finds hicon == 0.
_load_icon_228(t) ==
    /\ thr[t].pc = "_load_icon_228"
    /\ thr' = [thr EXCEPT ![t] =
                 [@ EXCEPT !.hicon = 0,
                           !.pc = IF _icon # "None" /\ isfile(_icon)
                                  THEN "_load_icon_231" ELSE "_load_icon_236"]]
    /\ UNCHANGED <<compileVars, fieldVars, nthreads, nativeVars, on_quit_calls,
                   cb_calls, check_hook, script, events>>

\* lines 229-231: hicon = self._hicon = LoadImage(0, encode_for_locale(self._icon), ...).
\* LoadImage returns a new handle for an icon file and 0 when self._icon,
\* read again here, no longer names one.
_load_icon_231(t) ==
    /\ thr[t].pc = "_load_icon_231"
    /\ LET loaded == _icon # "None" /\ isfile(_icon)
           handle == IF loaded THEN Len(icons) + 1 ELSE 0
       IN  /\ icons' = IF loaded THEN Append(icons, 0) ELSE icons
           /\ _hicon' = handle
           /\ thr' = [thr EXCEPT ![t] = [@ EXCEPT !.hicon = handle, !.pc = "_load_icon_232"]]
    /\ UNCHANGED <<compileVars, _icon, _icon_shared, _hwnd, _notify_id,
                   _message_loop_thread, _on_quit, _default_menu_index, _menu,
                   nthreads, windows, shell, on_quit_calls, cb_calls, check_hook, script, events>>

\* line 232: self._icon_shared = False; then line 235: if hicon == 0
_load_icon_232(t) ==
    /\ thr[t].pc = "_load_icon_232"
    /\ _icon_shared' = FALSE
    /\ thr' = [thr EXCEPT ![t] =
                 IF @.hicon = 0 THEN Goto(@, "_load_icon_236") ELSE Return(@)]
    /\ UNCHANGED <<compileVars, _icon, _hicon, _hwnd, _notify_id,
                   _message_loop_thread, _on_quit, _default_menu_index, _menu,
                   nthreads, nativeVars, on_quit_calls, cb_calls, check_hook, script, events>>

\* line 236: self._hicon = LoadIcon(0, IDI_APPLICATION)
_load_icon_236(t) ==
    /\ thr[t].pc = "_load_icon_236"
    /\ _hicon' = IDI_APPLICATION
    /\ thr' = [thr EXCEPT ![t] = Goto(@, "_load_icon_237")]
    /\ UNCHANGED <<compileVars, _icon, _icon_shared, _hwnd, _notify_id,
                   _message_loop_thread, _on_quit, _default_menu_index, _menu,
                   nthreads, nativeVars, on_quit_calls, cb_calls, check_hook, script, events>>

\* line 237: self._icon_shared = True
_load_icon_237(t) ==
    /\ thr[t].pc = "_load_icon_237"
    /\ _icon_shared' = TRUE
    /\ thr' = [thr EXCEPT ![t] = Goto(@, "_load_icon_238")]
    /\ UNCHANGED <<compileVars, _icon, _hicon, _hwnd, _notify_id,
                   _message_loop_thread, _on_quit, _default_menu_index, _menu,
                   nthreads, nativeVars, on_quit_calls, cb_calls, check_hook, script, events>>

\* line 238: self._icon = None
_load_icon_238(t) ==
    /\ thr[t].pc = "_load_icon_238"
    /\ _icon' = "None"
    /\ thr' = [thr EXCEPT ![t] = Return(@)]
    /\ UNCHANGED <<compileVars, _icon_shared, _hicon, _hwnd, _notify_id,
                   _message_loop_thread, _on_quit, _default_menu_index, _menu,
                   nthreads, nativeVars, on_quit_calls, cb_calls, check_hook, script, events>>

(***************************************************************************)
(* _refresh_icon, lines 240-255, run by whichever thread calls it.          *)
(***************************************************************************)
\* lines 241-242: if self._hwnd is None: return
_refresh_icon_241(t) ==
    /\ thr[t].pc = "_refresh_icon_241"
    /\ thr' = [thr EXCEPT ![t] =
                 IF _hwnd = 0 THEN Return(@) ELSE Goto(@, "_refresh_icon_243")]
    /\ UNCHANGED <<compileVars, fieldVars, nthreads, nativeVars, on_quit_calls,
                   cb_calls, check_hook, script, events>>

\* lines 243-244: if self._hicon == 0: self._load_icon()
_refresh_icon_243(t) ==
    /\ thr[t].pc = "_refresh_icon_243"
    /\ thr' = [thr EXCEPT ![t] =
                 IF _hicon = 0
                 THEN Call(@, "_load_icon_222", "_refresh_icon_245")
                 ELSE Goto(@, "_refresh_icon_245")]
    /\ UNCHANGED <<compileVars, fieldVars, nthreads, nativeVars, on_quit_calls,
                   cb_calls, check_hook, script, events>>

\* lines 245-248: message = NIM_MODIFY if self._notify_id else NIM_ADD
_refresh_icon_245(t) ==
    /\ thr[t].pc = "_refresh_icon_245"
    /\ thr' = [thr EXCEPT ![t] =
                 [@ EXCEPT !.message = IF _notify_id # NoNotify
                                       THEN "NIM_MODIFY" ELSE "NIM_ADD",
                           !.pc = "_refresh_icon_249"]]
    /\ UNCHANGED <<compileVars, fieldVars, nthreads, nativeVars, on_quit_calls,
                   cb_calls, check_hook, script, events>>

\* lines 249-254: self._notify_id = NotifyData(self._hwnd, ..., self._hicon, ...)
_refresh_icon_249(t) ==
    /\ thr[t].pc = "_refresh_icon_249"
    /\ _notify_id' = NotifyData(_hwnd, _hicon)
    /\ thr' = [thr EXCEPT ![t] = Goto(@, "_refresh_icon_255")]
    /\ UNCHANGED <<compileVars, _icon, _icon_shared, _hicon, _hwnd,
                   _message_loop_thread, _on_quit, _default_menu_index, _menu,
                   nthreads, nativeVars, on_quit_calls, cb_calls, check_hook, script, events>>

\* line 255: Shell_NotifyIcon(message, ctypes.byref(self._notify_id)).
\* byref(None) raises TypeError.
_refresh_icon_255(t) ==
    /\ thr[t].pc = "_refresh_icon_255"
    /\ LET f == IF _notify_id = NoNotify THEN Raise(thr[t], "TypeError") ELSE Return(thr[t])
       IN  /\ thr' = [thr EXCEPT ![t] = f]
           /\ windows' = WindowsAfter(t, f)
    /\ shell' = IF _notify_id = NoNotify THEN shell
                ELSE Shell_NotifyIcon(shell, thr[t].message, _notify_id)
    /\ UNCHANGED <<compileVars, fieldVars, nthreads, icons, on_quit_calls,
                   cb_calls, check_hook, script, events>>

(***************************************************************************)
(* The message-loop thread: _message_loop_func, lines 160-162.             *)
(***************************************************************************)
\* _create_window, lines 144-157: the window is created and its handle kept
\* in self._hwnd; line 158 then calls _refresh_icon, and PumpMessages
\* follows when that returns.
_create_window_146(t) ==
    /\ thr[t].pc = "_create_window_146"
    /\ windows' = windows \cup {HwndOf(t)}
    /\ _hwnd' = HwndOf(t)
    /\ thr' = [thr EXCEPT ![t] = Goto(@, "_refresh_icon_241")]
    /\ UNCHANGED <<compileVars, _icon, _icon_shared, _hicon, _notify_id,
                   _message_loop_thread, _on_quit, _default_menu_index, _menu,
                   nthreads, shell, icons, on_quit_calls, cb_calls, check_hook, script, events>>

\* PumpMessages takes the next message of the queue and WndProc, lines
\* 125-131, looks it up in _message_dict.
Dispatch(t, msg) ==
    /\ thr[t].pc = "pump"
    /\ thr[t].queue # <<>>
    /\ Head(thr[t].queue).msg = msg

\* The frame of WndProc for the message at the head of the queue.
InWndProc(t, kind) ==
    [thr[t] EXCEPT !.queue = Tail(@), !.ctx = "wndproc", !.error = "",
                   !.disp = [kind |-> kind, started |-> Started(t),
                             quits |-> on_quit_calls]]

\* TaskbarCreated -> _restart, lines 257-258
WndProc_TaskbarCreated(t) ==
    /\ Dispatch(t, "TaskbarCreated")
    /\ thr' = [thr EXCEPT ![t] = Call(InWndProc(t, "restart"), "_refresh_icon_241", "pump")]
    /\ UNCHANGED <<compileVars, fieldVars, nthreads, nativeVars, on_quit_calls,
                   cb_calls, check_hook, script, events>>

\* WM_CLOSE -> _destroy; DefWindowProc follows at line 131
WndProc_WM_CLOSE(t) ==
    /\ Dispatch(t, "WM_CLOSE")
    /\ thr' = [thr EXCEPT ![t] =
                 Call(Call(InWndProc(t, "close"), "_destroy_261", "pump"),
                      "_destroy_261", "DefWindowProc_WM_CLOSE")]
    /\ UNCHANGED <<compileVars, fieldVars, nthreads, nativeVars, on_quit_calls,
                   cb_calls, check_hook, script, events>>

\* WM_COMMAND -> _command, lines 356-358
WndProc_WM_COMMAND(t) ==
    /\ Dispatch(t, "WM_COMMAND")
    /\ thr' = [thr EXCEPT ![t] =
                 [Call(InWndProc(t, "command"), "_execute_menu_option_361", "pump")
                    EXCEPT !.action_id = Head(thr[t].queue).id]]
    /\ UNCHANGED <<compileVars, fieldVars, nthreads, nativeVars, on_quit_calls,
                   cb_calls, check_hook, script, events>>

\* _notify taking the default index as counted from one.
WndProc_notify_next(t) ==
    /\ Dispatch(t, "WM_USER+20")
    /\ LET lparam == Head(thr[t].queue).lparam
           f == InWndProc(t, "notify")
       IN  thr' = [thr EXCEPT ![t] =
                     CASE lparam = "WM_LBUTTONDBLCLK" ->
                            [Call(f, "_execute_menu_option_361", "pump")
                               EXCEPT !.action_id = _default_menu_index + FIRST_ID + 1]
                       [] lparam = "WM_RBUTTONUP" -> Call(f, "_show_menu", "pump")
                       [] OTHER -> AtBottom(f, "pump")]
    /\ UNCHANGED <<compileVars, fieldVars, nthreads, nativeVars, on_quit_calls,
                   cb_calls, check_hook, script, events>>

\* WM_USER+20 -> _notify, lines 273-280
WndProc_notify(t) ==
    /\ Dispatch(t, "WM_USER+20")
    /\ LET lparam == Head(thr[t].queue).lparam
           f == InWndProc(t, "notify")
       IN  thr' = [thr EXCEPT ![t] =
                     CASE lparam = "WM_LBUTTONDBLCLK" ->
                            [Call(f, "_execute_menu_option_361", "pump")
                               EXCEPT !.action_id = _default_menu_index + FIRST_ID]
                       [] lparam = "WM_RBUTTONUP" -> Call(f, "_show_menu", "pump")
                       [] OTHER -> AtBottom(f, "pump")]
    /\ UNCHANGED <<compileVars, fieldVars, nthreads, nativeVars, on_quit_calls,
                   cb_calls, check_hook, script, events>>

\* GetMessage returns 0 once PostQuitMessage was called and the queue is
\* empty: PumpMessages returns and the thread ends.
PumpMessages_quit(t) ==
    /\ thr[t].pc = "pump"
    /\ thr[t].queue = <<>>
    /\ thr[t].quit
    /\ thr' = [thr EXCEPT ![t] = AtBottom(@, "done")]
    /\ windows' = windows \ {HwndOf(t)}
    /\ UNCHANGED <<compileVars, fieldVars, nthreads, shell, icons, on_quit_calls,
                   cb_calls, check_hook, script, events>>

(***************************************************************************)
(* _destroy, lines 260-271.                                                *)
(***************************************************************************)
\* _destroy without lines 261-262: the quit callback is never invoked.
_destroy_261_silent(t) ==
    /\ thr[t].pc = "_destroy_261"
    /\ thr' = [thr EXCEPT ![t] = Goto(@, "_destroy_263")]
    /\ UNCHANGED <<compileVars, fieldVars, nthreads, nativeVars, on_quit_calls,
                   cb_calls, check_hook, script, events>>

\* lines 261-262: if self._on_quit: self._on_quit(self)
_destroy_261(t) ==
    /\ thr[t].pc = "_destroy_261"
    /\ on_quit_calls' = IF _on_quit THEN on_quit_calls + 1 ELSE on_quit_calls
    /\ thr' = [thr EXCEPT ![t] = Goto(@, "_destroy_263")]
    /\ UNCHANGED <<compileVars, fieldVars, nthreads, nativeVars, cb_calls, check_hook, script, events>>

\* lines 263-265: Shell_NotifyIcon(NIM_DELETE, NotifyData(self._hwnd, 0));
\* PostQuitMessage(0)
_destroy_263(t) ==
    /\ thr[t].pc = "_destroy_263"
    /\ shell' = Shell_NotifyIcon(shell, "NIM_DELETE", NotifyData(_hwnd, 0))
    /\ thr' = [thr EXCEPT ![t] = [@ EXCEPT !.quit = TRUE, !.pc = "_destroy_270"]]
    /\ UNCHANGED <<compileVars, fieldVars, nthreads, windows, icons, on_quit_calls,
                   cb_calls, check_hook, script, events>>

\* _destroy without line 270: the window handle is kept.
_destroy_270_keep(t) ==
    /\ thr[t].pc = "_destroy_270"
    /\ thr' = [thr EXCEPT ![t] = Goto(@, "_destroy_271")]
    /\ UNCHANGED <<compileVars, fieldVars, nthreads, nativeVars, on_quit_calls,
                   cb_calls, check_hook, script, events>>

\* line 270: self._hwnd = None
_destroy_270(t) ==
    /\ thr[t].pc = "_destroy_270"
    /\ _hwnd' = 0
    /\ thr' = [thr EXCEPT ![t] = Goto(@, "_destroy_271")]
    /\ UNCHANGED <<compileVars, _icon, _icon_shared, _hicon, _notify_id,
                   _message_loop_thread, _on_quit, _default_menu_index, _menu,
                   nthreads, nativeVars, on_quit_calls, cb_calls, check_hook, script, events>>

\* _destroy leaving self._notify_id as it is.
_destroy_271_keep(t) ==
    /\ thr[t].pc = "_destroy_271"
    /\ _notify_id' = _notify_id
    /\ thr' = [thr EXCEPT ![t] = Return(@)]
    /\ UNCHANGED <<compileVars, _icon, _icon_shared, _hicon, _hwnd,
                   _message_loop_thread, _on_quit, _default_menu_index, _menu,
                   nthreads, nativeVars, on_quit_calls, cb_calls, check_hook, script, events>>

\* line 271: self._notify_id = None
_destroy_271(t) ==
    /\ thr[t].pc = "_destroy_271"
    /\ _notify_id' = NoNotify
    /\ thr' = [thr EXCEPT ![t] = Return(@)]
    /\ UNCHANGED <<compileVars, _icon, _icon_shared, _hicon, _hwnd,
                   _message_loop_thread, _on_quit, _default_menu_index, _menu,
                   nthreads, nativeVars, on_quit_calls, cb_calls, check_hook, script, events>>

\* DestroyWindow(hwnd) by thread t: only the thread that created a window
\* can destroy it.  The window goes, the messages posted to it are dropped
\* and WM_DESTROY is sent to WndProc, which runs _destroy before
\* DestroyWindow returns (DefWindowProc does nothing for WM_DESTROY).
DestroyWindow(t, hwnd) ==
    IF hwnd = HwndOf(t) /\ hwnd \in windows
    THEN /\ windows' = windows \ {hwnd}
         /\ thr' = [thr EXCEPT ![t] = [Goto(@, "_destroy_261") EXCEPT !.queue = <<>>]]
    ELSE /\ UNCHANGED windows
         /\ thr' = [thr EXCEPT ![t] = Return(@)]

\* line 131 for WM_CLOSE: DefWindowProc calls DestroyWindow on the window
\* the message was sent to.
DefWindowProc_WM_CLOSE(t) ==
    /\ thr[t].pc = "DefWindowProc_WM_CLOSE"
    /\ DestroyWindow(t, HwndOf(t))
    /\ UNCHANGED <<compileVars, fieldVars, nthreads, shell, icons, on_quit_calls,
                   cb_calls, check_hook, script, events>>

(***************************************************************************)
(* The dispatcher and the popup menu.                                      *)
(***************************************************************************)
\* The lookup done with dict.get: a missing id is passed over in silence.
_execute_menu_option_361_get(t) ==
    /\ thr[t].pc = "_execute_menu_option_361"
    /\ LET action_id == thr[t].action_id
       IN  IF action_id \notin DOMAIN _menu_actions_by_id
           THEN /\ thr' = [thr EXCEPT ![t] = Return(@)]
                /\ UNCHANGED cb_calls
           ELSE IF _menu_actions_by_id[action_id] = QUIT
           THEN /\ thr' = [thr EXCEPT ![t] =
                             [Goto(@, "_execute_menu_option_363")
                                EXCEPT !.disp.kind = "quit"]]
                /\ UNCHANGED cb_calls
           ELSE LET name == _menu_actions_by_id[action_id].name
                IN  /\ thr' = [thr EXCEPT ![t] =
                                 IF name = "cb_shutdown"
                                 THEN Goto(@, "cb_shutdown_171")
                                 ELSE Return(@)]
                    /\ cb_calls' = [cb_calls EXCEPT ![name] = @ + 1]
    /\ UNCHANGED <<compileVars, fieldVars, nthreads, nativeVars, on_quit_calls,
                   check_hook, script, events>>

\* lines 361-362 and 365: look the id up (KeyError when it is missing);
\* a callback is invoked with the controller.  The callback cb_shutdown
\* goes on to call shutdown(); the others return at once.
_execute_menu_option_361(t) ==
    /\ thr[t].pc = "_execute_menu_option_361"
    /\ LET action_id == thr[t].action_id
       IN  IF action_id \notin DOMAIN _menu_actions_by_id
           THEN /\ thr' = [thr EXCEPT ![t] = Raise(@, "KeyError")]
                /\ UNCHANGED cb_calls
           ELSE IF _menu_actions_by_id[action_id] = QUIT
           THEN /\ thr' = [thr EXCEPT ![t] =
                             [Goto(@, "_execute_menu_option_363")
                                EXCEPT !.disp.kind = "quit"]]
                /\ UNCHANGED cb_calls
           ELSE LET name == _menu_actions_by_id[action_id].name
                IN  /\ thr' = [thr EXCEPT ![t] =
                                 IF name = "cb_shutdown"
                                 THEN Goto(@, "cb_shutdown_171")
                                 ELSE Return(@)]
                    /\ cb_calls' = [cb_calls EXCEPT ![name] = @ + 1]
    /\ UNCHANGED <<compileVars, fieldVars, nthreads, nativeVars, on_quit_calls,
                   check_hook, script, events>>

\* line 363: DestroyWindow(self._hwnd)
_execute_menu_option_363(t) ==
    /\ thr[t].pc = "_execute_menu_option_363"
    /\ DestroyWindow(t, _hwnd)
    /\ UNCHANGED <<compileVars, fieldVars, nthreads, shell, icons, on_quit_calls,
                   cb_calls, check_hook, script, events>>

(***************************************************************************)
(* shutdown(), lines 170-174, called by the callback cb_shutdown on the    *)
(* thread t that dispatched it.                                            *)
(***************************************************************************)
\* lines 171-172: if not self._hwnd: return
cb_shutdown_171(t) ==
    /\ thr[t].pc = "cb_shutdown_171"
    /\ thr' = [thr EXCEPT ![t] =
                 IF _hwnd = 0 THEN Return(@) ELSE Goto(@, "cb_shutdown_173")]
    /\ UNCHANGED <<compileVars, fieldVars, nthreads, nativeVars, on_quit_calls,
                   cb_calls, check_hook, script, events>>

\* line 173: PostMessage(self._hwnd, WM_CLOSE, 0, 0)
cb_shutdown_173(t) ==
    /\ thr[t].pc = "cb_shutdown_173"
    /\ thr' = [PostMessage(thr, _hwnd, WM_CLOSE) EXCEPT ![t] =
                  Goto(PostMessage(thr, _hwnd, WM_CLOSE)[t], "cb_shutdown_174")]
    /\ UNCHANGED <<compileVars, fieldVars, nthreads, nativeVars, on_quit_calls,
                   cb_calls, check_hook, script, events>>

\* line 174: self._message_loop_thread.join().  Thread.join() raises
\* RuntimeError when the thread to join is the current thread; otherwise
\* it returns once that thread has ended.
cb_shutdown_174(t) ==
    /\ thr[t].pc = "cb_shutdown_174"
    /\ IF _message_loop_thread = t
       THEN thr' = [thr EXCEPT ![t] = Raise(@, "RuntimeError")]
       ELSE /\ thr[_message_loop_thread].pc = "done"
            /\ thr' = [thr EXCEPT ![t] = Return(@)]
    /\ UNCHANGED <<compileVars, fieldVars, nthreads, nativeVars, on_quit_calls,
                   cb_calls, check_hook, script, events>>

RECURSIVE CommandIds(_)
\* _create_menu, lines 311-329: the ids of the items inserted as commands;
\* a node whose id is no key of the dispatch map is inserted as a submenu
\* of its children.
CommandIds(nodes) ==
    UNION { IF nodes[i].action_id \in DOMAIN _menu_actions_by_id
            THEN {nodes[i].action_id}
            ELSE CommandIds(nodes[i].children) : i \in 1..Len(nodes) }

(***************************************************************************)
(* The native popup menu.  A menu handle is the path of item positions     *)
(* leading from the popup to the menu; an item is a record of the menu it  *)
(* was inserted in, its position, its command id (0 for an item that opens *)
(* a submenu), the submenu it opens and its check state.                   *)
(***************************************************************************)
MFS_CHECKED == 8
MFS_UNCHECKED == 0

\* self._menu = CreatePopupMenu() (line 292)
PopupHandle == << >>

\* CheckBoxMenuOption._get_checked, lines 42-44: the cached flag becomes
\* what the hook returns now.
_get_checked(menu_option) ==
    IF menu_option.checkbox
    THEN [menu_option EXCEPT !.checked = check_hook]
    ELSE menu_option

\* fstate, lines 46-49 for a checkbox (the hook is asked first); a plain
\* MenuOption has no check state.
fstate(menu_option) ==
    IF menu_option.checkbox /\ menu_option.checked THEN MFS_CHECKED ELSE MFS_UNCHECKED

\* The element of a one-element set.  { F(x) : x \in {e} } computes e once
\* and hands its value to F, where a LET would compute e again at every
\* use of the name.
Only(S) == CHOOSE x \in S : TRUE

RECURSIVE _create_menu(_, _, _)

\* lines 319-325 for one entry: a command item when the entry's id is a key
\* of the dispatch map, otherwise a submenu built from the entry's compiled
\* children, otherwise an error.
SubmenuCreated(menu, position, menu_option) ==
    IF menu_option.action_id \in DOMAIN _menu_actions_by_id
    THEN [status |-> "ok", nodes |-> menu_option.children, items |-> {}]
    ELSE IF menu_option.compiled
    THEN _create_menu(Append(menu, position), menu_option.children, 0)
    ELSE [status |-> IF menu_option.submenu = NoneVal
                     THEN "ValueError" ELSE "AttributeError",
          nodes |-> menu_option.children, items |-> {}]

\* lines 326-328 for one entry whose item (and submenu sub) was made, and
\* the rest of the loop.
Inserted(menu, position, menu_option, sub, rest) ==
    LET isCommand == menu_option.action_id \in DOMAIN _menu_actions_by_id
        item == [menu |-> menu, position |-> position,
                 wID |-> IF isCommand THEN menu_option.action_id ELSE 0,
                 hSubMenu |-> IF isCommand THEN NoHandle ELSE Append(menu, position),
                 fState |-> fstate(menu_option)]
    IN  [status |-> rest.status,
         nodes |-> << [menu_option EXCEPT !.children = sub.nodes,
                                          !.menu_handle = menu,
                                          !.menu_position = position] >>
                       \o rest.nodes,
         items |-> {item} \cup sub.items \cup rest.items]

\* _create_menu, lines 311-329, over the entries from position on.  The
\* result carries the entries with their native positions recorded, the
\* items inserted and status "ok" or the exception raised.
_create_menu(menu, options, position) ==
    IF options = << >>
    THEN [status |-> "ok", nodes |-> << >>, items |-> {}]
    ELSE Only({ Only({
             IF sub.status # "ok"
             THEN [status |-> sub.status,
                   nodes |-> << [menu_option EXCEPT !.children = sub.nodes] >>
                                 \o Tail(options),
                   items |-> sub.items]
             ELSE Only({ Inserted(menu, position, menu_option, sub, rest) :
                         rest \in { _create_menu(menu, Tail(options), position + 1) } })
           : sub \in { SubmenuCreated(menu, position, menu_option) } })
         : menu_option \in { _get_checked(Head(options)) } })

\* GetMenuState(menu_handle, menu_position, MF_BYPOSITION) & MFS_CHECKED
GetMenuState(items, menu, position) ==
    LET found == { it \in items : it.menu = menu /\ it.position = position }
    IN  IF found = {} THEN MFS_UNCHECKED ELSE (CHOOSE it \in found : TRUE).fState

\* CheckMenuItem(menu_handle, menu_position, MF_BYPOSITION | u_check)
CheckMenuItem(items, menu, position, u_check) ==
    { IF it.menu = menu /\ it.position = position
      THEN [it EXCEPT !.fState = u_check] ELSE it : it \in items }

\* The integer a Python bool compares as.
PyInt(b) == IF b THEN 1 ELSE 0

\* refresh(), line 23 (MenuOption: nothing) and lines 34-40 (checkbox: ask
\* the hook, and if the entry has a native item whose state differs from
\* the flag, set the item's state).
refresh(menu_option, items) ==
    IF ~menu_option.checkbox
    THEN [node |-> menu_option, items |-> items]
    ELSE LET checkbox == _get_checked(menu_option)
             menu_item_checked ==
                 GetMenuState(items, checkbox.menu_handle, checkbox.menu_position)
         IN  IF /\ checkbox.menu_handle # NoHandle
                /\ PyInt(checkbox.checked) # menu_item_checked
             THEN [node |-> checkbox,
                   items |-> CheckMenuItem(items, checkbox.menu_handle,
                                           checkbox.menu_position,
                                           IF checkbox.checked
                                           THEN MFS_CHECKED ELSE MFS_UNCHECKED)]
             ELSE [node |-> checkbox, items |-> items]

\* _refresh_menu_options over the submenu field of an entry that was stored
\* as a leaf: the field still holds what the caller wrote.  Entries that
\* are MenuOption objects are refreshed (their flags are not part of the
\* controller's state); anything else has no refresh().
RECURSIVE RawRefresh(_)
RawRefresh(submenu) ==
    IF ~Truthy(submenu) THEN "ok"
    ELSE IF submenu.kind \in {"str", "QUIT"} THEN "AttributeError"
    ELSE IF submenu.kind # "list" THEN "TypeError"
    ELSE LET bad == { i \in 1..Len(submenu.items) :
                        \/ submenu.items[i].form # "node"
                        \/ RawRefresh(submenu.items[i].submenu) # "ok" }
             first == CHOOSE i \in bad : \A j \in bad : i <= j
         IN  IF bad = {} THEN "ok"
             ELSE IF submenu.items[first].form # "node" THEN "AttributeError"
             ELSE RawRefresh(submenu.items[first].submenu)

RECURSIVE _refresh_menu_options(_, _)

\* lines 287-288 for one refreshed entry r: the recursion into its submenu.
SubmenuRefreshed(r) ==
    IF r.node.compiled
    THEN _refresh_menu_options(r.node.children, r.items)
    ELSE [status |-> RawRefresh(r.node.submenu),
          nodes |-> r.node.children, items |-> r.items]

\* _refresh_menu_options, lines 282-288.
_refresh_menu_options(options, items) ==
    IF options = << >>
    THEN [status |-> "ok", nodes |-> << >>, items |-> items]
    ELSE Only({ Only({
             IF sub.status # "ok"
             THEN [status |-> sub.status,
                   nodes |-> << [r.node EXCEPT !.children = sub.nodes] >>
                                 \o Tail(options),
                   items |-> sub.items]
             ELSE Only({ [status |-> rest.status,
                          nodes |-> << [r.node EXCEPT !.children = sub.nodes] >>
                                        \o rest.nodes,
                          items |-> rest.items] :
                         rest \in { _refresh_menu_options(Tail(options), sub.items) } })
           : sub \in { SubmenuRefreshed(r) } })
         : r \in { refresh(Head(options), items) } })

\* lines 291-294: the popup, built on the first show.
PopupCreated ==
    IF _menu.built
    THEN [status |-> "ok", nodes |-> _menu_options, items |-> _menu.items]
    ELSE _create_menu(PopupHandle, _menu_options, 0)

\* line 296 on the popup created: the entries refreshed.
PopupShown(created) ==
    IF created.status = "ok"
    THEN _refresh_menu_options(created.nodes, created.items)
    ELSE created

\* _show_menu, lines 290-309: the popup is built on the first show, the
\* entries are refreshed on every show, and the popup is tracked on the
\* window self._hwnd; the user picks one of its commands, which posts
\* WM_COMMAND to the window, or dismisses it.
_show_menu(t) ==
    /\ thr[t].pc = "_show_menu"
    /\ \E created \in {PopupCreated} :
       \E shown \in {PopupShown(created)} :
           /\ _menu' = [built |-> TRUE, items |-> shown.items]
           /\ _menu_options' = shown.nodes
           /\ IF shown.status # "ok"
              THEN thr' = [thr EXCEPT ![t] = Raise(@, shown.status)]
              ELSE \/ thr' = [thr EXCEPT ![t] = Return(@)]
                   \/ \E id \in CommandIds(_menu_options) :
                        /\ _hwnd \in windows
                        /\ thr' = [PostMessage(thr, _hwnd, WM_COMMAND(id)) EXCEPT ![t] =
                                      Return(PostMessage(thr, _hwnd, WM_COMMAND(id))[t])]
    /\ UNCHANGED <<menu_options, menu_spec, _menu_actions_by_id, _next_action_id,
                   prepared, ncompiles, _icon, _icon_shared, _hicon, _hwnd,
                   _notify_id, _message_loop_thread, _on_quit, _default_menu_index,
                   nthreads, nativeVars, on_quit_calls, cb_calls, check_hook,
                   script, events>>

\* The state the caller's check hooks read changes: they return the other
\* value from now on.
HookChanges ==
    /\ check_hook' = ~check_hook
    /\ UNCHANGED <<compileVars, fieldVars, thr, nthreads, nativeVars,
                   on_quit_calls, cb_calls, script, events>>

(***************************************************************************)
(* The desktop shell and the user.                                         *)
(***************************************************************************)
\* The user clicks on the notification-area entry of a window: the shell
\* posts the entry's callback message WM_USER+20 to the window.
ClickWithin(max, t, lparam) ==
    /\ events < max
    /\ HwndOf(t) \in windows
    /\ \E e \in shell : e[1] = HwndOf(t)
    /\ events' = events + 1
    /\ thr' = PostMessage(thr, HwndOf(t), WM_USER_20(lparam))
    /\ UNCHANGED <<compileVars, fieldVars, nthreads, nativeVars, on_quit_calls,
                   cb_calls, check_hook, script>>

ShellClick(t, lparam) == ClickWithin(MaxEvents, t, lparam)

\* The shell restarts: its notification-area entries are gone and it
\* broadcasts the registered TaskbarCreated message to the windows.
ShellRestart ==
    /\ events < MaxEvents
    /\ windows # {}
    /\ events' = events + 1
    /\ shell' = {}
    /\ thr' = [t \in Threads |->
                 IF HwndOf(t) \in windows /\ t # MainThread
                 THEN [thr[t] EXCEPT !.queue = Append(@, TaskbarCreated)]
                 ELSE thr[t]]
    /\ UNCHANGED <<compileVars, fieldVars, nthreads, windows, icons, on_quit_calls,
                   cb_calls, check_hook, script>>

(***************************************************************************)
(* Specifications.  Next is every step of the caller, of the threads and   *)
(* of the shell.  The scenarios below fix what the caller does and which   *)
(* events the shell produces; a scenario's next-state relation is Next     *)
(* without the steps that nothing in the scenario can enable.              *)
(***************************************************************************)
\* _load_icon without the release of an owned icon
LoadSteps(t) ==
    \/ _load_icon_222(t)
    \/ _load_icon_228(t)
    \/ _load_icon_231(t)
    \/ _load_icon_232(t)
    \/ _load_icon_236(t)
    \/ _load_icon_237(t)
    \/ _load_icon_238(t)

\* lines 223-224
ReleaseSteps(t) ==
    \/ _load_icon_223(t)
    \/ _load_icon_224(t)

RefreshSteps(t) ==
    \/ _refresh_icon_241(t)
    \/ _refresh_icon_243(t)
    \/ _refresh_icon_245(t)
    \/ _refresh_icon_249(t)
    \/ _refresh_icon_255(t)

\* WM_CLOSE, WM_DESTROY and the end of the message loop
TeardownSteps(t) ==
    \/ WndProc_WM_CLOSE(t)
    \/ DefWindowProc_WM_CLOSE(t)
    \/ _destroy_261(t)
    \/ _destroy_263(t)
    \/ _destroy_270(t)
    \/ _destroy_271(t)
    \/ PumpMessages_quit(t)

\* the messages that clicks and the shell produce
EventSteps(t) ==
    \/ WndProc_TaskbarCreated(t)
    \/ WndProc_notify(t)
    \/ WndProc_WM_COMMAND(t)
    \/ _show_menu(t)
    \/ _execute_menu_option_361(t)
    \/ _execute_menu_option_363(t)

ShutdownSteps ==
    \/ shutdown
    \/ shutdown_173
    \/ shutdown_174

ShellStep ==
    \/ \E t \in LoopThreads :
         \E lparam \in {"WM_LBUTTONDBLCLK", "WM_RBUTTONUP", "WM_LBUTTONUP"} :
            ShellClick(t, lparam)
    \/ ShellRestart

UpdateIcons == IconPaths \cup {"None"}

\* shutdown() called by a callback on the thread that runs it
CallbackSteps(t) ==
    \/ cb_shutdown_171(t)
    \/ cb_shutdown_173(t)
    \/ cb_shutdown_174(t)

Next ==
    \/ start
    \/ ShutdownSteps
    \/ \E icon \in UpdateIcons : update(icon)
    \/ \E t \in Threads :
         \/ _create_window_146(t)
         \/ LoadSteps(t)
         \/ ReleaseSteps(t)
         \/ RefreshSteps(t)
         \/ TeardownSteps(t)
         \/ EventSteps(t)
         \/ CallbackSteps(t)
    \/ ShellStep
    \/ HookChanges

\* start() called MaxStarts times in a row on a Registered controller.
StartScripts == { [i \in 1..MaxStarts |-> "start"] }

InitStarts == Registered(StartScripts)

NextStarts ==
    \/ start
    \/ \E t \in LoopThreads :
         \/ _create_window_146(t)
         \/ LoadSteps(t)
         \/ ReleaseSteps(t)
         \/ RefreshSteps(t)

SpecStarts == InitStarts /\ [][NextStarts]_vars

\* One session: start() or __enter__, possibly an update(), then shutdown()
\* or __exit__, with the user and the shell acting on the notification
\* entry meanwhile.  The caller may stop at any point of its script.
SessionScripts ==
    { <<"start", "shutdown">>, <<"start", "update", "shutdown">> }

InitSession == Registered(SessionScripts)

NextSession ==
    \/ start
    \/ ShutdownSteps
    \/ \E icon \in UpdateIcons : update(icon)
    \/ \E t \in Threads :
         \/ _create_window_146(t)
         \/ LoadSteps(t)
         \/ ReleaseSteps(t)
         \/ RefreshSteps(t)
         \/ TeardownSteps(t)
         \/ EventSteps(t)
    \/ ShellStep

SpecSession == InitSession /\ [][NextSession]_vars

\* The scheduler runs every thread that can take a step: the message-loop
\* threads, and the caller's thread inside a call it has made.  Nothing
\* obliges the caller to make a call, nor the user or the shell to act.
Fairness ==
    /\ \A t \in LoopThreads :
         WF_vars(\/ _create_window_146(t)
                 \/ LoadSteps(t)
                 \/ ReleaseSteps(t)
                 \/ RefreshSteps(t)
                 \/ TeardownSteps(t)
                 \/ EventSteps(t))
    /\ WF_vars(shutdown_173 \/ shutdown_174)

FairSession == SpecSession /\ Fairness

\* One start() and MaxUpdates update() calls, with and without an icon, in
\* any order.
IconScripts ==
    { [i \in 1..(MaxUpdates + 1) |-> IF i = k THEN "start" ELSE "update"] :
        k \in 1..(MaxUpdates + 1) }

InitIcons == Registered(IconScripts)

NextIcons ==
    \/ start
    \/ \E icon \in UpdateIcons : update(icon)
    \/ \E t \in Threads :
         \/ _create_window_146(t)
         \/ LoadSteps(t)
         \/ ReleaseSteps(t)
         \/ RefreshSteps(t)

SpecIcons == InitIcons /\ [][NextIcons]_vars


\* A second session: start(), shutdown(), and once the controller is
\* Terminated, start() and shutdown() again, with the user and the shell
\* acting on the notification entry meanwhile.
RestartScripts == { <<"start", "shutdown", "start", "shutdown">> }

InitRestart == Registered(RestartScripts)

\* Every thread the controller started has ended, and no window, entry or
\* window handle is left.
AllTerminated ==
    /\ \A t \in 1..nthreads : thr[t].pc = "done"
    /\ shell = {}
    /\ windows = {}
    /\ _hwnd = 0

NextRestart ==
    \/ AllTerminated /\ start
    \/ ShutdownSteps
    \/ \E t \in LoopThreads :
         \/ _create_window_146(t)
         \/ LoadSteps(t)
         \/ RefreshSteps(t)
         \/ TeardownSteps(t)
         \/ EventSteps(t)
    \/ ShellStep

SpecRestart == InitRestart /\ [][NextRestart]_vars

FairRestart == SpecRestart /\ Fairness

\* What the user's clicks dispatch: a started controller whose menu is one
\* of the two below, clicked up to MaxClicks times, while the state the
\* check hooks read changes.
\* (('A', None, cb_a), CheckBoxMenuOption('B', callback=cb_b, check_hook=hook),
\*  ('Stop', None, cb_shutdown))
LeafMenu ==
    [container |-> "tuple",
     items |-> << RawEntry("tuple", Callable("cb_a"), NoneVal, FALSE),
                  RawEntry("node", Callable("cb_b"), NoneVal, TRUE),
                  RawEntry("tuple", Callable("cb_shutdown"), NoneVal, FALSE) >>]

\* (MenuOption('Parent', submenu=[CheckBoxMenuOption('A', callback=cb_a,
\*                                                   check_hook=hook)]),)
NestedMenu ==
    [container |-> "tuple",
     items |-> << RawEntry("node", NoneVal,
                           ListVal(<< RawEntry("node", Callable("cb_a"), NoneVal, TRUE) >>),
                           FALSE) >>]

\* default_menu_index: every entry of LeafMenu with its Quit entry, and one
\* past them.
DispatchIndexes == 0..4

InitDispatch ==
    RegisteredWith({ <<"start">> }, {LeafMenu, NestedMenu}, DispatchIndexes, BOOLEAN)

NextDispatch ==
    \/ start
    \/ \E t \in LoopThreads :
         \/ _create_window_146(t)
         \/ LoadSteps(t)
         \/ RefreshSteps(t)
         \/ TeardownSteps(t)
         \/ EventSteps(t)
         \/ CallbackSteps(t)
    \/ \E t \in LoopThreads :
         \E lparam \in {"WM_LBUTTONDBLCLK", "WM_RBUTTONUP", "WM_LBUTTONUP"} :
            ClickWithin(MaxClicks, t, lparam)
    \/ ShellRestart
    \/ HookChanges

SpecDispatch == InitDispatch /\ [][NextDispatch]_vars

(***************************************************************************)
(* Claims about the menu compiler, checked under SpecCompile.              *)
(***************************************************************************)
\* The compiled tree in pre-order, and its action ids.
Walk == PreOrder(_menu_options)
WalkIds == IdsOf(Walk)

\* C1: for every menu specification that compiles, the action ids of the
\* compiled tree are pairwise distinct and strictly increasing along the
\* pre-order walk (parent, then its children, then the parent's next sibling).
C1_IdsStrictlyIncreasing ==
    prepared = "ok" =>
        \A i, j \in 1..Len(WalkIds) : i < j => WalkIds[i] < WalkIds[j]

\* C2: the id of each node is FIRST_ID plus its zero-based position in the
\* pre-order walk (Quit last), so a submenu's children get the ids right
\* after the submenu's own id.
C2_PreOrderNumbering ==
    prepared = "ok" =>
        \A i \in 1..Len(WalkIds) : WalkIds[i] = FIRST_ID + (i - 1)

RECURSIVE Classifiable(_)
\* Every entry of the list is, by the classification rule, a leaf (callable
\* or special action, no children) or a submenu (a non-empty list of
\* classifiable child entries as its action field or its submenu field).
Classifiable(items) ==
    \A i \in 1..Len(items) :
        LET e == items[i]
        IN  /\ e.form \in {"tuple", "dict", "node"}
            /\ \/ IsLeafAction(e.callback) /\ e.submenu = NoneVal
               \/ /\ e.callback.kind = "list" /\ e.callback.items # <<>>
                  /\ e.submenu = NoneVal
                  /\ Classifiable(e.callback.items)
               \/ /\ e.callback = NoneVal
                  /\ e.submenu.kind = "list" /\ e.submenu.items # <<>>
                  /\ Classifiable(e.submenu.items)

\* The child entries of a classifiable submenu entry.
ChildEntries(e) == IF e.callback.kind = "list" THEN e.callback.items ELSE e.submenu.items

RECURSIVE Mirrors(_, _)
\* The compiled sibling list has one node per entry, in order: a leaf node
\* bound to the entry's action, or a submenu node whose children mirror the
\* entry's child entries.
Mirrors(nodes, items) ==
    /\ Len(nodes) = Len(items)
    /\ \A i \in 1..Len(items) :
        IF IsLeafAction(items[i].callback)
        THEN nodes[i].callback = items[i].callback /\ ~nodes[i].compiled
        ELSE nodes[i].compiled /\ Mirrors(nodes[i].children, ChildEntries(items[i]))

\* A top-level entry in the positional or keyed form whose action field is a
\* non-text iterable.
HasIterableAction(items) ==
    \E i \in 1..Len(items) :
        items[i].form \in {"tuple", "dict"} /\ items[i].callback.kind = "list"

\* C3: an entry whose action field is a non-text iterable, in the positional
\* or the keyed form, compiles into a Submenu node whose children are the
\* compiled entries of the iterable, in order.
C3_IterableActionCompiles ==
    (ncompiles = 1 /\ Classifiable(menu_spec) /\ HasIterableAction(menu_spec)) =>
        /\ prepared = "ok"
        /\ Mirrors(_menu_options, Append(menu_spec, QuitOption))

\* C8: in every compiled tree the synthetic Quit leaf (the last top-level
\* sibling) has an action id greater than that of every other node, and the
\* dispatch map binds that id to QUIT.
C8_QuitHighestAndDispatchable ==
    prepared = "ok" =>
        LET quit == _menu_options[Len(_menu_options)]
        IN  /\ quit.callback = QUIT
            /\ \A i \in 1..(Len(Walk) - 1) : Walk[i].action_id < quit.action_id
            /\ Walk[Len(Walk)] = quit
            /\ quit.action_id \in DOMAIN _menu_actions_by_id
            /\ _menu_actions_by_id[quit.action_id] = QUIT

\* A compiled tree with a submenu of two children followed by Quit.
C8_Witness ==
    /\ prepared = "ok"
    /\ Len(_menu_options) = 2
    /\ _menu_options[1].compiled
    /\ Len(_menu_options[1].children) = 2

C4_StartTwiceOneThread ==
    Len(script) <= MaxStarts - 2 =>
        /\ nthreads = 1
        /\ Cardinality(windows) <= 1

\* The caller has made every call of its script and the last has returned.
ScriptDone == script = <<>> /\ thr[MainThread].pc = "idle"

\* Thread t waits in GetMessage: its queue is empty and PostQuitMessage
\* was not called, so nothing but a new message makes it move.
WaitsForMessages(t) ==
    /\ Alive(t)
    /\ thr[t].pc = "pump"
    /\ thr[t].queue = <<>>
    /\ ~thr[t].quit

\* C5: leaving the managed scope always shuts the controller down: once
\* __exit__ has returned, no message-loop thread is left waiting for
\* messages with its window and notification entry in place, however soon
\* after __enter__ the scope was left.
C5_ExitShutsDown ==
    ScriptDone => \A t \in LoopThreads : ~WaitsForMessages(t)

\* shutdown() was called on a Started controller and is about to post the
\* close request.
ShutdownOnStarted ==
    /\ thr[MainThread].pc = "shutdown_173"
    /\ thr[MainThread].disp.started

\* The controller is Terminated: every message-loop thread has exited
\* after PostQuitMessage, no notification entry is left and the window
\* handle is cleared.
Terminated ==
    /\ \A t \in 1..nthreads : thr[t].pc = "done" /\ thr[t].quit
    /\ shell = {}
    /\ windows = {}
    /\ _hwnd = 0

\* C6: shutdown() called on a Started controller from the caller's thread
\* posts one close request to the window and, with the threads scheduled
\* fairly, returns; at the step it returns the controller is Terminated.
C6_ShutdownTerminates ==
    /\ ShutdownOnStarted ~> (thr[MainThread].pc = "idle")
    /\ [][ /\ (/\ ShutdownOnStarted
               /\ thr'[MainThread].pc = "shutdown_174"
               /\ _hwnd \in windows
               => thr'[_hwnd].queue = Append(thr[_hwnd].queue, WM_CLOSE))
           /\ (/\ thr[MainThread].pc = "shutdown_174"
               /\ thr[MainThread].disp.started
               /\ thr'[MainThread].pc = "idle"
               => Terminated') ]_vars

\* shutdown() on a Started controller is about to return from join().
C6_Witness ==
    /\ thr[MainThread].pc = "shutdown_174"
    /\ thr[MainThread].disp.started
    /\ thr[_message_loop_thread].pc = "done"
    /\ on_quit_calls > 0

\* Thread t is at the last statement of the teardown that a dispatch of
\* the quit id on a Started controller began.
QuitTeardownEnds(t) ==
    /\ thr[t].pc = "_destroy_271"
    /\ thr[t].disp.kind = "quit"
    /\ thr[t].disp.started

\* C7: dispatching the quit id on a Started controller runs the teardown
\* with the quit callback invoked exactly once and leaves the controller
\* Terminated: when the teardown ends the callback has run once more than
\* when the dispatch began, the window is destroyed, the notification
\* entry is gone, the pump is told to stop and the window handle and the
\* notification id are cleared.
C7_QuitRunsTeardownOnce ==
    [][\A t \in LoopThreads :
         QuitTeardownEnds(t) /\ thr'[t].pc # "_destroy_271" =>
            /\ on_quit_calls' = thr[t].disp.quits + 1
            /\ HwndOf(t) \notin windows'
            /\ shell' = {}
            /\ thr'[t].quit
            /\ thr'[t].pc = "pump"
            /\ _hwnd' = 0
            /\ _notify_id' = NoNotify]_vars

C7_Witness ==
    \E t \in LoopThreads : QuitTeardownEnds(t) /\ on_quit_calls = 1

\* C10: the shared default icon is never released and every handle loaded
\* from an icon file is released at most once.
C10_DefaultIconNeverReleased ==
    /\ icons[IDI_APPLICATION] = 0
    /\ \A h \in DOMAIN icons : icons[h] <= 1

\* C17: after every successful compilation the keys of the dispatch map
\* are exactly the action ids of the leaf and checkbox nodes of the compiled
\* tree, and the action id of no submenu node is a key.
C17_DispatchKeysAreLeafIds ==
    prepared = "ok" =>
        /\ DOMAIN _menu_actions_by_id =
              { Walk[i].action_id : i \in { j \in 1..Len(Walk) : ~Walk[j].compiled } }
        /\ \A i \in 1..Len(Walk) :
              Walk[i].compiled => Walk[i].action_id \notin DOMAIN _menu_actions_by_id

\* The icon handles LoadImage returned (every handle but the default one).
OwnedIcons == DOMAIN icons \ {IDI_APPLICATION}

\* C11: an owned icon is always released: once the controller is
\* Terminated no handle loaded from an icon file is still unreleased.
C11_OwnedIconReleased ==
    (nthreads > 0 /\ Terminated) => \A h \in OwnedIcons : icons[h] >= 1

\* C19: whatever triggers the teardown, the quit callback is invoked
\* exactly once per started session: it has never run more often than
\* message-loop threads were started.
C19_QuitCallbackOncePerSession == on_quit_calls <= nthreads

\* C20: under every interleaving of update(icon=...) on the caller with the
\* renders of the loop thread, the notification data a thread is about to
\* pass to the shell never carries a released icon handle, and a thread
\* about to store a new handle in self._hicon (lines 231, 236) never
\* overwrites an owned handle that was not released.
C20_NoReleasedIconRendered ==
    \A t \in Threads :
        /\ (/\ thr[t].pc = "_refresh_icon_255"
            /\ _notify_id # NoNotify
            /\ _notify_id[2] \in OwnedIcons
            => icons[_notify_id[2]] = 0)
        /\ (/\ thr[t].pc \in {"_load_icon_231", "_load_icon_236"}
            /\ _hicon \in OwnedIcons
            /\ ~_icon_shared
            => icons[_hicon] >= 1)

(***************************************************************************)
(* C18.  Within one Started session the notification entry is rendered     *)
(* with 'add' exactly once, on the first render after the window is        *)
(* created, and every later render until teardown uses 'modify': no thread *)
(* is about to send NIM_ADD for a window whose entry the shell already     *)
(* has, which an earlier NIM_ADD of the same session put there.            *)
(***************************************************************************)
C18_AddOncePerSession ==
    \A t \in Threads :
        (/\ thr[t].pc = "_refresh_icon_255"
         /\ thr[t].message = "NIM_ADD"
         /\ _notify_id # NoNotify)
        => ~ \E e \in shell : e[1] = _notify_id[1]

(***************************************************************************)
(* C14.  Executing an action id that is not a key of the dispatch map      *)
(* raises an error out of the dispatcher: the step of _execute_menu_option *)
(* leaves WndProc with KeyError, invokes no callback, starts no teardown   *)
(* and changes nothing of the controller, its window or its entry.         *)
(***************************************************************************)
DispatchMiss(t) ==
    /\ thr[t].pc = "_execute_menu_option_361"
    /\ thr[t].action_id \notin DOMAIN _menu_actions_by_id

C14_DispatchMissRaises ==
    [][\A t \in LoopThreads :
         DispatchMiss(t) /\ thr'[t].pc # thr[t].pc
         => /\ thr'[t].error = "KeyError"
            /\ thr'[t].pc \notin {"_execute_menu_option_363", "cb_shutdown_171"}
            /\ thr'[t].queue = thr[t].queue
            /\ thr'[t].quit = thr[t].quit
            /\ cb_calls' = cb_calls
            /\ on_quit_calls' = on_quit_calls
            /\ UNCHANGED <<compileVars, fieldVars, nthreads, nativeVars>>]_vars

C14_Witness ==
    \E t \in LoopThreads :
        /\ thr[t].error = "KeyError"
        /\ thr[t].pc = "pump"
        /\ Alive(t)
        /\ _default_menu_index + FIRST_ID \notin DOMAIN _menu_actions_by_id

(***************************************************************************)
(* C15.  For a menu whose top-level entries are all leaves and a default   *)
(* index k within range: a left-button double-click executes the id        *)
(* FIRST_ID + k, which is the id of the k-th top-level entry, and that     *)
(* execution invokes that entry's callback once and no other (or starts    *)
(* the teardown when the entry is Quit); a right-button release shows the  *)
(* popup and invokes nothing; a left-button release invokes nothing and    *)
(* changes no state.                                                       *)
(***************************************************************************)
AllLeaves == \A i \in 1..Len(_menu_options) : ~_menu_options[i].compiled
InRange == _default_menu_index \in 0..(Len(_menu_options) - 1)
DefaultEntry == _menu_options[_default_menu_index + 1]

\* Thread t takes the notification lparam from its queue.
Notified(t, lparam) ==
    /\ thr[t].pc = "pump"
    /\ thr[t].queue # << >>
    /\ Head(thr[t].queue) = WM_USER_20(lparam)
    /\ thr'[t].queue = Tail(thr[t].queue)

\* Thread t takes the step at pc of the handler of a notification.
NotifyStepAt(t, pc) ==
    /\ thr[t].pc = pc
    /\ thr[t].disp.kind = "notify"
    /\ thr'[t].pc # pc

C15_ClicksDispatch ==
    [][AllLeaves /\ InRange =>
        \A t \in LoopThreads :
           /\ Notified(t, "WM_LBUTTONDBLCLK")
              => /\ thr'[t].pc = "_execute_menu_option_361"
                 /\ thr'[t].action_id = FIRST_ID + _default_menu_index
                 /\ DefaultEntry.action_id = FIRST_ID + _default_menu_index
                 /\ cb_calls' = cb_calls
                 /\ on_quit_calls' = on_quit_calls
           /\ NotifyStepAt(t, "_execute_menu_option_361")
              => /\ thr[t].action_id = DefaultEntry.action_id
                 /\ IF DefaultEntry.callback = QUIT
                    THEN /\ cb_calls' = cb_calls
                         /\ thr'[t].pc = "_execute_menu_option_363"
                    ELSE /\ cb_calls' = [cb_calls EXCEPT ![DefaultEntry.callback.name] = @ + 1]
                         /\ thr'[t].pc \in {"pump", "cb_shutdown_171"}
                 /\ on_quit_calls' = on_quit_calls
           /\ Notified(t, "WM_RBUTTONUP")
              => /\ thr'[t].pc = "_show_menu"
                 /\ cb_calls' = cb_calls
                 /\ on_quit_calls' = on_quit_calls
           /\ NotifyStepAt(t, "_show_menu")
              => /\ _menu'.built
                 /\ thr'[t].pc = "pump"
                 /\ cb_calls' = cb_calls
                 /\ on_quit_calls' = on_quit_calls
                 /\ UNCHANGED nativeVars
           /\ Notified(t, "WM_LBUTTONUP")
              => /\ thr'[t].pc = "pump"
                 /\ thr'[t].quit = thr[t].quit
                 /\ cb_calls' = cb_calls
                 /\ on_quit_calls' = on_quit_calls
                 /\ UNCHANGED <<compileVars, fieldVars, nthreads, nativeVars>>]_vars

C15_Witness ==
    /\ AllLeaves
    /\ _default_menu_index = 1
    /\ cb_calls = [NoCalls EXCEPT !["cb_b"] = 1]
    /\ ~_menu.built
    /\ events = 1
    /\ thr[1].pc = "pump"

(***************************************************************************)
(* C12.  A menu callback running on the message-loop thread may call       *)
(* shutdown() on the controller: the call returns without error.  No       *)
(* thread has a shutdown() call end in the RuntimeError of a thread        *)
(* joining itself.                                                         *)
(***************************************************************************)
C12_CallbackShutdownReturns ==
    \A t \in Threads : thr[t].error # "RuntimeError"

(***************************************************************************)
(* C16.  For a checkbox with a hook, at any nesting depth: when the popup  *)
(* is shown, the entry's cached checked flag equals what the hook returns  *)
(* now, and the entry has a native menu item whose check state equals      *)
(* that value.                                                             *)
(***************************************************************************)
ShownAsHooked(nodes, items) ==
    \A i \in 1..Len(nodes) :
        nodes[i].checkbox
        => /\ nodes[i].checked = check_hook
           /\ \E it \in items :
                /\ it.menu = nodes[i].menu_handle
                /\ it.position = nodes[i].menu_position
                /\ it.fState = IF check_hook THEN MFS_CHECKED ELSE MFS_UNCHECKED

C16_CheckboxShownAsHooked ==
    [][\A t \in LoopThreads :
         thr[t].pc = "_show_menu" /\ thr'[t].pc # "_show_menu"
         => ShownAsHooked(PreOrder(_menu_options'), _menu'.items)]_vars

(***************************************************************************)
(* C13.  After shutdown() or a Quit dispatch has brought the controller to *)
(* Terminated, a subsequent start() makes it usable again: the call        *)
(* starts exactly one new thread, which creates the one window there is;   *)
(* the new thread's first render sends 'add' and the shell gets the entry  *)
(* of the new window; the dispatch map is the one compiled at construction *)
(* and an id executed in the new session invokes the callback stored under *)
(* it; and a later shutdown() of the started controller returns with the   *)
(* controller Terminated again.                                            *)
(***************************************************************************)
\* The caller is about to call start() again on a Terminated controller.
Restarting ==
    /\ CallerIdle("start")
    /\ nthreads >= 1
    /\ AllTerminated

\* t is a thread of a later session than the first.
Restarted(t) == t > 1 /\ t <= nthreads

C13_RestartUsable ==
    /\ [][/\ Restarting /\ script' # script
             => /\ nthreads' = nthreads + 1
                /\ _message_loop_thread' = nthreads'
                /\ thr'[nthreads'].pc = "_create_window_146"
                /\ \A t \in LoopThreads \ {nthreads'} : thr'[t] = thr[t]
                /\ windows' = {}
          /\ _menu_actions_by_id' = _menu_actions_by_id
          /\ \A t \in LoopThreads :
               /\ (Restarted(t) /\ thr[t].pc = "_create_window_146"
                                /\ thr'[t].pc # "_create_window_146")
                  => windows' = {HwndOf(t)} /\ _hwnd' = HwndOf(t)
               /\ (Restarted(t) /\ thr[t].ctx = "create"
                                /\ thr[t].pc = "_refresh_icon_255"
                                /\ thr'[t].pc # "_refresh_icon_255")
                  => /\ thr[t].message = "NIM_ADD"
                     /\ shell' = {NotifyData(HwndOf(t), _hicon)}
                     /\ thr'[t].pc = "pump"
               /\ (Restarted(t) /\ thr[t].pc = "_execute_menu_option_361"
                                /\ thr'[t].pc # "_execute_menu_option_361"
                                /\ thr[t].action_id \in DOMAIN _menu_actions_by_id
                                /\ callable(_menu_actions_by_id[thr[t].action_id]))
                  => cb_calls' = [cb_calls EXCEPT
                                    ![_menu_actions_by_id[thr[t].action_id].name] = @ + 1]
          /\ (/\ thr[MainThread].pc = "shutdown_174"
              /\ thr[MainThread].disp.started
              /\ nthreads > 1
              /\ thr'[MainThread].pc = "idle")
             => AllTerminated' /\ thr'[nthreads].quit
         ]_vars
    /\ (nthreads > 1 /\ thr[nthreads].ctx = "create")
       ~> (thr[nthreads].pc = "pump" /\ HwndOf(nthreads) \in windows /\ shell # {})
    /\ (ShutdownOnStarted /\ nthreads > 1) ~> (thr[MainThread].pc = "idle" /\ AllTerminated)

\* The second session was started, and the second shutdown(), called on
\* the started controller, is about to return with the controller
\* Terminated.
C13_Witness ==
    /\ nthreads = 2
    /\ thr[MainThread].pc = "shutdown_174"
    /\ thr[MainThread].disp.started
    /\ thr[2].pc = "done"
    /\ AllTerminated
    /\ script = << >>

=============================================================================
